---- MODULE Spec2Model ----
(***************************************************************************)
(* A model of the 2D Ising Monte Carlo simulator: the IsingModel class     *)
(* (src/IsingModel.py) and the batch driver main() (src/IsingPlotter.py).  *)
(*                                                                         *)
(* Spins are the integers -1 and 1.  Energies are integers: get_total_E    *)
(* divides an even number by 2.0, so the float it returns is that integer. *)
(* Real numbers in [0,1] (the acceptance probability, the uniform draw)    *)
(* are fixed-point numbers.  Python's True / False / None are the strings  *)
(* "True" / "False" / "None".                                              *)
(***************************************************************************)
EXTENDS Integers, Sequences, FiniteSets, TLC

\* ------------------------------------------------------------------ bounds
MaxDim == 2          \* rows and cols range over 1..MaxDim
MaxDrift == 16       \* cap on |total_E - get_total_E()| (an unbounded counter)
DrawRes == 4         \* np.random.random() returns one of k/DrawRes, k < DrawRes
MaxK == 4            \* metropolis() is called on its own with dE in -4*MaxK..4*MaxK
MaxLen == 3          \* bootstrap() is called on its own with at most MaxLen samples
MaxResamples == 2    \* the bootstrap sample count ranges over 0..MaxResamples
MaxTemp == 2         \* batch run: max_temp ranges over 0..MaxTemp
MaxSweeps == 2       \* batch run: sweeps ranges over 0..MaxSweeps
MaxStride == 2       \* batch run: n ranges over 0..MaxStride
MaxSteps == 8        \* batch run: at most MaxSteps dynamics steps in the whole run

VARIABLES
    size,            \* self.size: <<rows, cols>>
    temp,            \* self.temp
    ini,             \* self.ini
    dynamics,        \* self.dynamics
    lattice,         \* self.lattice: [Sites(size) -> {-1, 1}]
    total_E,         \* self.total_E
    op,              \* the method that ran last ("build" after construction)
    called,          \* whether that method called metropolis()
    outcome,         \* what that metropolis() call returned ("None": no call)
    ndraws,          \* number of np.random.random() draws that method consumed
    arg_dE,          \* the dE of the last call of metropolis() made on its own
    arg_r,           \* the uniform draw of that call (k of k/DrawRes), -1: none
    boot,            \* the frame of a call of bootstrap() / bootstrap_chi()
    params,          \* main(): the parameters read from the input file
    pc,              \* main(): where the batch run is
    temp_i,          \* main(): i, the index of the temperature point
    sweep_j,         \* main(): j and l, the index of the sweep
    step_k,          \* main(): k and m, the index of the step in the sweep
    energy_per_temp, \* main(): the energy samples of this temperature point
    mag_per_temp,    \* main(): the magnetisation samples of this temperature point
    glauber_output,  \* main(): the records written to the glauber file
    kawasaki_output  \* main(): the records written to the kawasaki file

obj == <<size, temp, ini, dynamics, lattice, total_E>>
log == <<op, called, outcome, ndraws>>
call == <<arg_dE, arg_r>>
drv == <<params, pc, temp_i, sweep_j, step_k, energy_per_temp, mag_per_temp,
         glauber_output, kawasaki_output>>
vars == <<obj, log, call, boot, drv>>

\* ----------------------------------------------------------------- helpers
Abs(x) == IF x < 0 THEN -x ELSE x
Min(a, b) == IF a <= b THEN a ELSE b

Dims == 1..MaxDim
Temps == {1, 2}
TempsM == {1, 2, 3, 4}
DEs == {4 * k : k \in (0 - MaxK)..MaxK}
Spins == {-1, 1}
Draws == 0..(DrawRes - 1)

Sites(sz) == (0..(sz[1] - 1)) \X (0..(sz[2] - 1))

\* ------------------------------------------------------------- the lattice
\* A faulty pbc: an index off the edge is moved to the nearest edge.
pbc_clamped(sz, indices) ==
    <<IF indices[1] < 0 THEN 0
      ELSE IF indices[1] >= sz[1] THEN sz[1] - 1 ELSE indices[1],
      IF indices[2] < 0 THEN 0
      ELSE IF indices[2] >= sz[2] THEN sz[2] - 1 ELSE indices[2]>>

\* pbc: indices taken modulo the dimensions (Python's % is TLA+'s %).
pbc(sz, indices) == <<indices[1] % sz[1], indices[2] % sz[2]>>

get_dE(l, sz, indices) ==
    LET i == indices[1]
        j == indices[2]
    IN  2 * l[<<i, j>>] * ( l[pbc(sz, <<i - 1, j>>)]
                          + l[pbc(sz, <<i + 1, j>>)]
                          + l[pbc(sz, <<i, j - 1>>)]
                          + l[pbc(sz, <<i, j + 1>>)] )

unit_E(l, sz, indices) ==
    LET i == indices[1]
        j == indices[2]
    IN  (0 - l[<<i, j>>]) * ( l[pbc(sz, <<i - 1, j>>)]
                            + l[pbc(sz, <<i + 1, j>>)]
                            + l[pbc(sz, <<i, j - 1>>)]
                            + l[pbc(sz, <<i, j + 1>>)] )

\* The double loop of get_total_E, site number k = i * cols + j.
RECURSIVE SumUnitE(_, _, _)
SumUnitE(l, sz, k) ==
    IF k = 0 THEN 0
    ELSE SumUnitE(l, sz, k - 1)
         + unit_E(l, sz, <<(k - 1) \div sz[2], (k - 1) % sz[2]>>)

\* A faulty get_total_E: the halving left out.
get_total_E_unhalved(l, sz) == SumUnitE(l, sz, sz[1] * sz[2])

\* total_E / 2.0: the sum is even (every bond is counted from both ends).
get_total_E(l, sz) == SumUnitE(l, sz, sz[1] * sz[2]) \div 2

\* np.sum(self.lattice)
RECURSIVE SumSpins(_, _, _)
SumSpins(l, sz, k) ==
    IF k = 0 THEN 0
    ELSE SumSpins(l, sz, k - 1) + l[<<(k - 1) \div sz[2], (k - 1) % sz[2]>>]

get_abs_M(l, sz) == Abs(SumSpins(l, sz, sz[1] * sz[2]))

\* self.lattice[indices] *= -1
Flip(l, indices) == [l EXCEPT ![indices] = (0 - 1) * l[indices]]

\* -------------------------------------------------------------- metropolis
\* m.exp(-x) in fixed point: FixOne stands for 1.0, InvE for exp(-1) and
\* SixthE for exp(-1/6).  Products are rounded down, as far as 0 (underflow).
FixOne == 10000
InvE == 3679
SixthE == 8465

RECURSIVE ExpNegN(_)
ExpNegN(q) == IF q <= 0 THEN FixOne ELSE (ExpNegN(q - 1) * InvE) \div FixOne

RECURSIVE ExpNegSixths(_)
ExpNegSixths(q) == IF q <= 0 THEN FixOne ELSE (ExpNegSixths(q - 1) * SixthE) \div FixOne

\* m.exp(- dE / self.temp) for dE >= 0 and temp > 0.  dE is a multiple of 4
\* and the temperatures of the model divide 24, so dE / temp is a whole
\* number of sixths.
ExpNeg(dE, t) ==
    LET q == (6 * dE) \div t
    IN  (ExpNegN(q \div 6) * ExpNegSixths(q % 6)) \div FixOne

\* A faulty acceptance probability: m.exp(dE / self.temp), the sign lost; for
\* dE >= 0 that is at least 1, and min caps it at 1.
AcceptProb_unsigned(dE, t) == FixOne

\* prob = min(1, m.exp(- dE / self.temp))
AcceptProb(dE, t) == Min(FixOne, ExpNeg(dE, t))

\* r <= prob, with r = rr / DrawRes
DrawLeq(rr, prob) == rr * FixOne <= prob * DrawRes

\* A faulty metropolis: r < prob in place of r <= prob.
metropolis_strict(dE, t, rr) ==
    IF dE < 0 THEN "True"
    ELSE IF rr * FixOne < AcceptProb(dE, t) * DrawRes THEN "True" ELSE "False"

metropolis(dE, t, rr) ==
    IF dE < 0 THEN "True"
    ELSE IF dE >= 0
         THEN LET prob == AcceptProb(dE, t)
              IN  IF DrawLeq(rr, prob) THEN "True"
                  ELSE IF ~DrawLeq(rr, prob) THEN "False"
                  ELSE "None"
         ELSE "None"

\* The probability that metropolis(dE) returns True: 1 in the dE < 0 branch,
\* and in the dE >= 0 branch the probability that a uniform r of [0, 1) is
\* <= prob, which is prob.
accept_probability(dE, t) ==
    IF dE < 0 THEN FixOne
    ELSE IF dE >= 0 THEN AcceptProb(dE, t)
    ELSE 0

\* np.random.random() is called in the dE >= 0 branch only.
metropolis_draws(dE) == IF dE < 0 THEN 0 ELSE IF dE >= 0 THEN 1 ELSE 0

\* What metropolis(dE) can return, over all draws.
metropolis_outcomes(dE, t) == {metropolis(dE, t, rr) : rr \in Draws}

\* ------------------------------------------------------------- observables
\* A float: "nan", an "exact" fraction num / den, or a "random" value that
\* depends on the resampling draws.
NaN == [kind |-> "nan", num |-> 0, den |-> 1]
Frac(a, b) == [kind |-> "exact", num |-> a, den |-> b]
Random == [kind |-> "random", num |-> 0, den |-> 1]

RECURSIVE SeqSum(_)
SeqSum(q) == IF q = <<>> THEN 0 ELSE Head(q) + SeqSum(Tail(q))

RECURSIVE SeqSumSq(_)
SeqSumSq(q) == IF q = <<>> THEN 0 ELSE Head(q) * Head(q) + SeqSumSq(Tail(q))

\* np.mean: nan (and a warning) on an empty sequence.
np_mean(q) == IF q = <<>> THEN NaN ELSE Frac(SeqSum(q), Len(q))

\* np.var, the population variance, times the factor 1 / d: nan on an empty
\* sequence.
np_var_over(q, d) ==
    IF q = <<>> THEN NaN
    ELSE Frac(Len(q) * SeqSumSq(q) - SeqSum(q) * SeqSum(q), Len(q) * Len(q) * d)

get_avg_obs(observables) == np_mean(observables)
get_heat_capacity(energies, sz, t) == np_var_over(energies, sz[1] * sz[2] * t * t)
get_chi(mags, sz, t) == np_var_over(mags, sz[1] * sz[2] * t)

\* --------------------------------------------------------------- bootstrap
\* np.random.randint(low, high): an integer of low..high-1, ValueError when
\* there is none.
randint(low, high) == IF low >= high THEN {} ELSE low..(high - 1)

\* r = np.random.randint(0, (len(energies)-1))
bootstrap_indices(n) == randint(0, n - 1)

\* m.sqrt(np.var(error_data)): nan when error_data is empty or holds a nan.
sqrt_var(error_data) ==
    IF error_data = <<>> \/ \E x \in 1..Len(error_data) : error_data[x].kind = "nan"
    THEN NaN
    ELSE Random

\* ------------------------------------------------------------ construction
\* A faulty build_lattice: the all-up branch draws the sites like the random
\* branch.
build_lattice_drawn(sz, how) ==
    IF how = "r" \/ how = "u" THEN [Sites(sz) -> Spins] ELSE {}

\* build_lattice: "r" draws every site independently, "u" is all up.  ("k"
\* writes a fixed 50 x 25 block and needs a 50 x 50 lattice: outside Dims.)
build_lattice(sz, how) ==
    IF how = "r" THEN [Sites(sz) -> Spins]
    ELSE IF how = "u" THEN {[s \in Sites(sz) |-> 1]}
    ELSE {}

\* IsingModel(size, temp, ini, dynamics)
Construct(sz, t, how, dyn) ==
    /\ size = sz
    /\ temp = t
    /\ ini = how
    /\ dynamics = dyn
    /\ lattice \in build_lattice(sz, how)
    /\ total_E = get_total_E(lattice, sz)

NoLog ==
    /\ op = "build"
    /\ called = FALSE
    /\ outcome = "None"
    /\ ndraws = 0

NoCall ==
    /\ arg_dE = 0
    /\ arg_r = -1

DynamicsNames == {"glauber", "kawasaki", "kawasaki_2", "ising"}

\* No bootstrap call is under way.
NoBoot ==
    boot = [pc |-> "idle", fn |-> "none", data |-> <<>>, samples |-> 0, i |-> 0,
            sampling_data |-> <<>>, error_data |-> <<>>, ret |-> NaN]

\* No batch run is under way.
NoDriver ==
    /\ params = [none |-> TRUE]
    /\ pc = "none"
    /\ temp_i = 0
    /\ sweep_j = 0
    /\ step_k = 0
    /\ energy_per_temp = <<>>
    /\ mag_per_temp = <<>>
    /\ glauber_output = <<>>
    /\ kawasaki_output = <<>>

Init ==
    /\ \E sz \in Dims \X Dims, t \in Temps, how \in {"r", "u"}, dyn \in DynamicsNames :
          Construct(sz, t, how, dyn)
    /\ NoLog
    /\ NoCall
    /\ NoBoot
    /\ NoDriver

\* The cap on the drift of total_E: the true energy lies within 2 * rows * cols.
Capped(sz, E) == Abs(E) <= 2 * sz[1] * sz[2] + MaxDrift

\* ---------------------------------------------------------------- glauber
glauber_lattice(l, indices, out) == IF out = "True" THEN Flip(l, indices) ELSE l
\* A faulty glauber: total_E updated outside the test of the outcome.
glauber_total_E_always(E, dE, out) == E + dE

glauber_total_E(E, dE, out) == IF out = "True" THEN E + dE ELSE E

glauber ==
    \E indices \in Sites(size) :
        LET dE == get_dE(lattice, size, indices)
        IN  \E out \in metropolis_outcomes(dE, temp) :
                /\ lattice' = glauber_lattice(lattice, indices, out)
                /\ total_E' = glauber_total_E(total_E, dE, out)
                /\ Capped(size, total_E')
                /\ op' = "glauber"
                /\ called' = TRUE
                /\ outcome' = out
                /\ ndraws' = metropolis_draws(dE)
                /\ UNCHANGED <<size, temp, ini, dynamics, call>>

\* --------------------------------------------------------------- kawasaki
\* A faulty kawasaki: the comparison of the two spins left out.
kawasaki_differ_always(l, indices_1, indices_2) == TRUE

kawasaki_differ(l, indices_1, indices_2) == l[indices_1] # l[indices_2]

\* dE_1, trial flip of site 1, dE_2 on the perturbed lattice.
kawasaki_dE(l, sz, indices_1, indices_2) ==
    LET dE_1 == get_dE(l, sz, indices_1)
        l1 == [l EXCEPT ![indices_1] = (0 - 1) * l[indices_1]]
        dE_2 == get_dE(l1, sz, indices_2)
    IN  dE_1 + dE_2

\* A faulty kawasaki: the trial flip of site 1 is not undone.
kawasaki_trial_kept(l, indices_1) ==
    [l EXCEPT ![indices_1] = (0 - 1) * l[indices_1]]

\* The lattice as the accept/reject decision finds it: site 1 negated twice.
kawasaki_restored(l, indices_1) ==
    LET l1 == [l EXCEPT ![indices_1] = (0 - 1) * l[indices_1]]
    IN  [l1 EXCEPT ![indices_1] = (0 - 1) * l1[indices_1]]

\* A faulty kawasaki: an accepted exchange flips site 1 only.
kawasaki_lattice_one(l, indices_1, indices_2, out) ==
    IF out = "True"
    THEN Flip(kawasaki_restored(l, indices_1), indices_1)
    ELSE kawasaki_restored(l, indices_1)

kawasaki_lattice(l, indices_1, indices_2, out) ==
    IF out = "True"
    THEN Flip(Flip(kawasaki_restored(l, indices_1), indices_1), indices_2)
    ELSE kawasaki_restored(l, indices_1)

kawasaki_total_E(E, dE, out) == IF out = "True" THEN E + dE ELSE E

kawasaki_at(indices_1, indices_2) ==
    IF kawasaki_differ(lattice, indices_1, indices_2)
    THEN LET dE == kawasaki_dE(lattice, size, indices_1, indices_2)
         IN  \E out \in metropolis_outcomes(dE, temp) :
                 /\ lattice' = kawasaki_lattice(lattice, indices_1, indices_2, out)
                 /\ total_E' = kawasaki_total_E(total_E, dE, out)
                 /\ Capped(size, total_E')
                 /\ op' = "kawasaki"
                 /\ called' = TRUE
                 /\ outcome' = out
                 /\ ndraws' = metropolis_draws(dE)
                 /\ UNCHANGED <<size, temp, ini, dynamics, call>>
    ELSE /\ op' = "kawasaki"
         /\ called' = FALSE
         /\ outcome' = "None"
         /\ ndraws' = 0
         /\ UNCHANGED <<obj, call>>

kawasaki ==
    \E indices_1 \in Sites(size), indices_2 \in Sites(size) :
        kawasaki_at(indices_1, indices_2)

\* ----------------------------------------------------------------- animate
\* One iteration of animate's loop: the step self.dynamics names.  A name
\* that matches no branch does nothing; "kawasaki_2" names a method the class
\* does not have (AttributeError).
animate ==
    \/ /\ dynamics = "glauber"
       /\ glauber
       /\ UNCHANGED <<boot, drv>>
    \/ /\ dynamics = "kawasaki"
       /\ kawasaki
       /\ UNCHANGED <<boot, drv>>
    \/ /\ dynamics = "kawasaki_2"
       /\ op' = "AttributeError"
       /\ UNCHANGED <<obj, called, outcome, ndraws, call, boot, drv>>
    \/ /\ dynamics \notin {"glauber", "kawasaki", "kawasaki_2"}
       /\ op' = "animate"
       /\ UNCHANGED <<obj, called, outcome, ndraws, call, boot, drv>>

Next == animate

Spec == Init /\ [][Next]_vars

\* ------------------------------------------------- metropolis() on its own
\* A call lattice.metropolis(dE) on an object just built, for every dE that
\* glauber() or kawasaki() can hand it.
InitMetropolis ==
    /\ \E sz \in Dims \X Dims, t \in TempsM : Construct(sz, t, "u", "glauber")
    /\ NoLog
    /\ NoCall
    /\ NoBoot
    /\ NoDriver

metropolis_call ==
    \E dE \in DEs, rr \in Draws :
        /\ op' = "metropolis"
        /\ called' = TRUE
        /\ outcome' = metropolis(dE, temp, rr)
        /\ ndraws' = metropolis_draws(dE)
        /\ arg_dE' = dE
        /\ arg_r' = IF metropolis_draws(dE) = 1 THEN rr ELSE -1
        /\ UNCHANGED <<obj, boot, drv>>

NextMetropolis == metropolis_call

SpecMetropolis == InitMetropolis /\ [][NextMetropolis]_vars

\* ---------------------------------------------------- bootstrap() on its own
\* A call lattice.bootstrap(data, samples) or lattice.bootstrap_chi(data,
\* samples), one resampling draw at a time.
SampleValues == {-8, 0}

RECURSIVE SeqsUpTo(_)
SeqsUpTo(n) ==
    IF n = 0 THEN {<<>>}
    ELSE LET shorter == SeqsUpTo(n - 1)
         IN  shorter \cup {Append(q, v) : q \in {x \in shorter : Len(x) = n - 1},
                                          v \in SampleValues}

InitBootstrap ==
    /\ \E t \in Temps : Construct(<<MaxDim, MaxDim>>, t, "u", "glauber")
    /\ NoLog
    /\ NoCall
    /\ NoDriver
    /\ \E fn \in {"bootstrap", "bootstrap_chi"}, data \in SeqsUpTo(MaxLen),
          samples \in 0..MaxResamples :
          boot = [pc |-> "loop", fn |-> fn, data |-> data, samples |-> samples,
                  i |-> 0, sampling_data |-> <<>>, error_data |-> <<>>, ret |-> NaN]

bootstrap_derive(fn, sampling_data, sz, t) ==
    IF fn = "bootstrap" THEN get_heat_capacity(sampling_data, sz, t)
    ELSE get_chi(sampling_data, sz, t)

\* One iteration of the inner loop: a draw, or the ValueError of randint.
bootstrap_draw ==
    /\ boot.pc = "loop"
    /\ boot.i < boot.samples
    /\ Len(boot.sampling_data) < Len(boot.data)
    /\ IF bootstrap_indices(Len(boot.data)) = {}
       THEN boot' = [boot EXCEPT !.pc = "ValueError"]
       ELSE \E rr \in bootstrap_indices(Len(boot.data)) :
                boot' = [boot EXCEPT !.sampling_data = Append(@, boot.data[rr + 1])]
    /\ UNCHANGED <<obj, log, call, drv>>

\* The end of one iteration of the outer loop.
bootstrap_resample_done ==
    /\ boot.pc = "loop"
    /\ boot.i < boot.samples
    /\ Len(boot.sampling_data) = Len(boot.data)
    /\ boot' = [boot EXCEPT
                   !.error_data = Append(@, bootstrap_derive(boot.fn, boot.sampling_data,
                                                             size, temp)),
                   !.sampling_data = <<>>,
                   !.i = @ + 1]
    /\ UNCHANGED <<obj, log, call, drv>>

bootstrap_return ==
    /\ boot.pc = "loop"
    /\ boot.i = boot.samples
    /\ boot' = [boot EXCEPT !.pc = "return", !.ret = sqrt_var(boot.error_data)]
    /\ UNCHANGED <<obj, log, call, drv>>

NextBootstrap == bootstrap_draw \/ bootstrap_resample_done \/ bootstrap_return

SpecBootstrap == InitBootstrap /\ [][NextBootstrap]_vars

\* ------------------------------------------------------------ the batch run
\* np.arange(start, stop, step) for step > 0: start + x * step below stop.
np_arange(start, stop, step) ==
    LET count == IF stop <= start THEN 0 ELSE (stop - start + step - 1) \div step
    IN  [x \in 1..count |-> start + (x - 1) * step]

\* temp_range = np.arange(min_temp, max_temp + temp_step, temp_step)
temp_range(p) == np_arange(p.min_temp, p.max_temp + p.temp_step, p.temp_step)

\* The lattice sides of the batch runs.
Sides == {1, 2}

\* The number of dynamics steps a run with parameters p makes when no error
\* ends it.
run_steps(p) == Len(temp_range(p)) * p.sweeps * p.lattice_size * p.lattice_size

ParamSets ==
    {p \in [min_temp : {1}, max_temp : 0..MaxTemp, temp_step : {1, 2},
            sweeps : 0..MaxSweeps, eqm_sweeps : 1..(MaxSweeps + 1), n : 0..MaxStride,
            samples : {0, MaxResamples}, dynamics : DynamicsNames,
            lattice_size : Sides] :
        run_steps(p) <= MaxSteps}

\* main() after the parameter file is read and both output files are open;
\* no lattice exists yet.
InitBatch ==
    /\ params \in ParamSets
    /\ pc = "temp_loop"
    /\ temp_i = 0
    /\ sweep_j = 0
    /\ step_k = 0
    /\ energy_per_temp = <<>>
    /\ mag_per_temp = <<>>
    /\ glauber_output = <<>>
    /\ kawasaki_output = <<>>
    /\ size = <<params.lattice_size, params.lattice_size>>
    /\ temp = 0
    /\ ini = "u"
    /\ dynamics = params.dynamics
    /\ lattice = <<>>
    /\ total_E = 0
    /\ op = "unbound"
    /\ called = FALSE
    /\ outcome = "None"
    /\ ndraws = 0
    /\ NoCall
    /\ NoBoot

\* The top of the loop over temp_range: a fresh uniform-up lattice and two
\* empty sample lists, then the branch on lattice.dynamics.  A name that is
\* neither "glauber" nor "kawasaki" matches no branch: the loop goes on.
begin_temperature ==
    /\ pc = "temp_loop"
    /\ temp_i < Len(temp_range(params))
    /\ size' = <<params.lattice_size, params.lattice_size>>
    /\ temp' = temp_range(params)[temp_i + 1]
    /\ ini' = "u"
    /\ dynamics' = params.dynamics
    /\ lattice' \in build_lattice(size', "u")
    /\ total_E' = get_total_E(lattice', size')
    /\ op' = "build"
    /\ called' = FALSE
    /\ outcome' = "None"
    /\ ndraws' = 0
    /\ energy_per_temp' = <<>>
    /\ mag_per_temp' = <<>>
    /\ sweep_j' = 0
    /\ step_k' = 0
    /\ IF params.dynamics \in {"glauber", "kawasaki"}
       THEN pc' = "sweeps" /\ temp_i' = temp_i
       ELSE pc' = "temp_loop" /\ temp_i' = temp_i + 1
    /\ UNCHANGED <<params, glauber_output, kawasaki_output, call, boot>>

\* if (j+1) >= eqm_sweeps and (j+1) % n == 0: "sample", "skip", or the
\* ZeroDivisionError of % 0.
sample_test(jj, p) ==
    IF (jj + 1) >= p.eqm_sweeps
    THEN IF p.n = 0 THEN "ZeroDivisionError"
         ELSE IF (jj + 1) % p.n = 0 THEN "sample" ELSE "skip"
    ELSE "skip"

\* One iteration of the inner loop (over k, or m): one step of the dynamics,
\* then the sampling test, which stands inside this loop.
sweep_step ==
    /\ pc = "sweeps"
    /\ sweep_j < params.sweeps
    /\ \/ dynamics = "glauber" /\ glauber
       \/ dynamics = "kawasaki" /\ kawasaki
    /\ LET test == sample_test(sweep_j, params)
       IN  /\ energy_per_temp' = IF test = "sample"
                                 THEN Append(energy_per_temp, total_E')
                                 ELSE energy_per_temp
           /\ mag_per_temp' = IF test = "sample" /\ dynamics = "glauber"
                              THEN Append(mag_per_temp, get_abs_M(lattice', size))
                              ELSE mag_per_temp
           /\ IF test = "ZeroDivisionError"
              THEN pc' = "ZeroDivisionError" /\ UNCHANGED <<sweep_j, step_k>>
              ELSE /\ pc' = pc
                   /\ IF step_k + 1 = params.lattice_size * params.lattice_size
                      THEN sweep_j' = sweep_j + 1 /\ step_k' = 0
                      ELSE sweep_j' = sweep_j /\ step_k' = step_k + 1
    /\ UNCHANGED <<params, temp_i, glauber_output, kawasaki_output, boot>>

\* What bootstrap(data, samples) and bootstrap_chi(data, samples) come to:
\* the ValueError of randint when a draw is made from a single sample, nan
\* when there is no resample or no sample, a value otherwise.
bootstrap_raises(data, samples) ==
    samples > 0 /\ Len(data) > 0 /\ bootstrap_indices(Len(data)) = {}

bootstrap_value(data, samples) ==
    IF samples = 0 \/ data = <<>> THEN NaN ELSE Random

glauber_record(t, energies, mags, sz, samples) ==
    [temp |-> t,
     energy |-> get_avg_obs(energies),
     magnetisation |-> get_avg_obs(mags),
     heat_capacity |-> get_heat_capacity(energies, sz, t),
     heat_cap_error |-> bootstrap_value(energies, samples),
     chi |-> get_chi(mags, sz, t),
     chi_error |-> bootstrap_value(mags, samples)]

kawasaki_record(t, energies, sz, samples) ==
    [temp |-> t,
     energy |-> get_avg_obs(energies),
     heat_capacity |-> get_heat_capacity(energies, sz, t),
     heat_cap_error |-> bootstrap_value(energies, samples)]

\* After the last sweep of a temperature point: the observables, their
\* bootstrap errors, and one record written to the file of the dynamics.
end_temperature ==
    /\ pc = "sweeps"
    /\ sweep_j = params.sweeps
    /\ IF bootstrap_raises(energy_per_temp, params.samples)
       THEN /\ pc' = "ValueError"
            /\ UNCHANGED <<temp_i, glauber_output, kawasaki_output>>
       ELSE /\ pc' = "temp_loop"
            /\ temp_i' = temp_i + 1
            /\ glauber_output' =
                  IF dynamics = "glauber"
                  THEN Append(glauber_output,
                              glauber_record(temp, energy_per_temp, mag_per_temp,
                                             size, params.samples))
                  ELSE glauber_output
            /\ kawasaki_output' =
                  IF dynamics = "kawasaki"
                  THEN Append(kawasaki_output,
                              kawasaki_record(temp, energy_per_temp, size, params.samples))
                  ELSE kawasaki_output
    /\ UNCHANGED <<obj, log, call, boot, params, sweep_j, step_k,
                   energy_per_temp, mag_per_temp>>

\* After the last temperature point: both files are closed and main() returns.
close_files ==
    /\ pc = "temp_loop"
    /\ temp_i = Len(temp_range(params))
    /\ pc' = "done"
    /\ UNCHANGED <<obj, log, call, boot, params, temp_i, sweep_j, step_k,
                   energy_per_temp, mag_per_temp, glauber_output, kawasaki_output>>

NextBatch == begin_temperature \/ sweep_step \/ end_temperature \/ close_files

SpecBatch == InitBatch /\ [][NextBatch]_vars

\* ------------------------------------------- glauber() in the cold limit
\* metropolis() in the limit temp -> 0+: exp(-dE / temp) is 1 for dE = 0 and
\* tends to 0 for dE > 0, and the draw r of [0, 1) is <= 1 always and <= 0
\* with probability 0.
\* A faulty cold metropolis: dE = 0 rejected.
metropolis_cold_strict(dE) == IF dE < 0 THEN "True" ELSE "False"

metropolis_cold(dE) ==
    IF dE < 0 THEN "True"
    ELSE IF dE >= 0
         THEN IF dE = 0 THEN "True" ELSE "False"
         ELSE "None"

\* The lattice sizes of the cold runs: every size with rows, cols <= 3, and
\* one lattice with a dimension of 4, the smallest that holds two stripes of
\* width 2.
ColdDims == 1..3
ColdSizes == (ColdDims \X ColdDims) \cup {<<2, 4>>}

\* 0 stands for the limit temperature.
InitCold ==
    /\ \E sz \in ColdSizes : Construct(sz, 0, "r", "glauber")
    /\ NoLog
    /\ NoCall
    /\ NoBoot
    /\ NoDriver

\* glauber() with the site np.random.randint chose.
glauber_cold_at(indices) ==
    LET dE == get_dE(lattice, size, indices)
        out == metropolis_cold(dE)
    IN  /\ lattice' = glauber_lattice(lattice, indices, out)
        /\ total_E' = glauber_total_E(total_E, dE, out)
        /\ op' = "glauber"
        /\ called' = TRUE
        /\ outcome' = out
        /\ ndraws' = metropolis_draws(dE)
        /\ UNCHANGED <<size, temp, ini, dynamics, call, boot, drv>>

glauber_cold == \E indices \in Sites(size) : glauber_cold_at(indices)

NextCold == glauber_cold

\* The values abs(np.sum(self.lattice)) takes on these lattices.
ColdLevels == 0..(3 * 3)

\* The site is drawn uniformly and independently at every step, so a kind of
\* proposal that is possible infinitely often is made infinitely often, with
\* probability 1.  Stated for the proposals that raise abs(np.sum(lattice))
\* from each of its values; the loop itself never stops proposing.
FairCold ==
    \A c \in ColdLevels :
        SF_vars(/\ Abs(SumSpins(lattice, size, size[1] * size[2])) = c
                /\ glauber_cold
                /\ Abs(SumSpins(lattice', size, size[1] * size[2])) > c)

SpecCold == InitCold /\ [][NextCold]_vars /\ WF_vars(NextCold) /\ FairCold

\* ------------------------------------------------------------------ claims
NSites == size[1] * size[2]
Magnetisation == SumSpins(lattice, size, NSites)

\* C1: in every reachable state the incrementally maintained total_E equals
\* get_total_E() recomputed from scratch on the current grid.
C1_EnergyInvariant == total_E = get_total_E(lattice, size)

\* C2: under pair-exchange dynamics the sum of all spins stays, at every
\* step, the sum of all spins of the initial configuration.
C2_KawasakiConservesM ==
    \A c \in (0 - MaxDim * MaxDim)..(MaxDim * MaxDim) :
        (dynamics = "kawasaki" /\ Magnetisation = c) => [](Magnetisation = c)

\* A pair-exchange run in which an exchange was accepted.
C2_Witness == dynamics = "kawasaki" /\ op = "kawasaki" /\ outcome = "True"

\* C3: a kawasaki() step whose two chosen sites hold equal spins (the same
\* site chosen twice included) changes no spin, leaves total_E unchanged,
\* does not call metropolis() and consumes no random draw.
C3_KawasakiNoOp ==
    [][(dynamics = "kawasaki") =>
          \A indices_1 \in Sites(size), indices_2 \in Sites(size) :
              ( /\ lattice[indices_1] = lattice[indices_2]
                /\ kawasaki_at(indices_1, indices_2) )
              => ( /\ lattice' = lattice
                   /\ total_E' = total_E
                   /\ called' = FALSE
                   /\ ndraws' = 0 )]_vars

\* A kawasaki() step that took the equal-spins branch, on a lattice that
\* also holds unequal spins.
C3_Witness ==
    /\ op = "kawasaki"
    /\ called = FALSE
    /\ \E s \in Sites(size), t \in Sites(size) : lattice[s] # lattice[t]

\* C4: resampling a sequence of N samples, a single draw can produce exactly
\* the indices 0..N-1; the last sample, index N-1, can be drawn.
C4_BootstrapIndexCoverage ==
    (boot.pc = "loop" /\ boot.i < boot.samples /\ Len(boot.data) > 0)
        => /\ bootstrap_indices(Len(boot.data)) = 0..(Len(boot.data) - 1)
           /\ (Len(boot.data) - 1) \in bootstrap_indices(Len(boot.data))

\* C5: for each temperature point exactly one energy sample (and, for
\* glauber, one magnetisation sample) is recorded per sweep index s that
\* satisfies s >= eqm_sweeps and s % n = 0, once that sweep's rows * cols
\* steps are completed, and none for any other sweep: the sample lists are as
\* long as the number of such sweeps completed so far.
QualifyingSweeps(p, done) ==
    {s \in 1..done : s >= p.eqm_sweeps /\ p.n # 0 /\ s % p.n = 0}

C5_SamplingCadence ==
    (pc = "sweeps") =>
        /\ Len(energy_per_temp) = Cardinality(QualifyingSweeps(params, sweep_j))
        /\ (dynamics = "glauber")
              => Len(mag_per_temp) = Cardinality(QualifyingSweeps(params, sweep_j))

\* C6: flipping the spin of a site and adding get_dE of that site to
\* total_E, twice in a row, returns the grid and total_E to their values.
FlipOnce(st, sz, indices) ==
    <<glauber_lattice(st[1], indices, "True"),
      glauber_total_E(st[2], get_dE(st[1], sz, indices), "True")>>

C6_DeltaExactness ==
    \A indices \in Sites(size) :
        FlipOnce(FlipOnce(<<lattice, total_E>>, size, indices), size, indices)
            = <<lattice, total_E>>

\* C7: metropolis(dE) returns True for every dE < 0 and draws nothing; for
\* dE >= 0 it draws one r and returns True iff r <= min(1, exp(-dE/temp)),
\* so dE = 0 is always accepted; it always returns True or False.
C7_MetropolisRule ==
    (op = "metropolis") =>
        /\ outcome \in {"True", "False"}
        /\ (arg_dE < 0) => (outcome = "True" /\ ndraws = 0 /\ arg_r = -1)
        /\ (arg_dE >= 0) =>
              /\ ndraws = 1
              /\ arg_r \in Draws
              /\ (outcome = "True")
                    <=> (arg_r * FixOne <= Min(FixOne, ExpNeg(arg_dE, temp)) * DrawRes)
        /\ (arg_dE = 0) => (outcome = "True")

\* A call with dE > 0 accepted on the draw r = 0 where exp(-dE/temp) has
\* underflowed to 0: the case r = prob of r <= prob.
C7_Witness ==
    /\ op = "metropolis"
    /\ arg_dE > 0
    /\ ExpNeg(arg_dE, temp) = 0
    /\ arg_r = 0
    /\ outcome = "True"

\* C8: a uniform-up lattice is constructed with total_E = -2 * rows * cols,
\* half the sum of unit_E over all sites; -8 for 2 x 2.
C8_InitialEnergy ==
    (op = "build" /\ ini = "u")
        => /\ total_E = (0 - 2) * size[1] * size[2]
           /\ 2 * total_E = SumUnitE(lattice, size, NSites)
           /\ (size = <<2, 2>> => total_E = -8)

\* A 2 x 2 uniform-up lattice right after construction.
C8_Witness ==
    /\ op = "build"
    /\ ini = "u"
    /\ size = <<2, 2>>
    /\ \A s \in Sites(size) : lattice[s] = 1

\* C9: a batch run (over at least one temperature point) whose dynamics name
\* is neither "glauber" nor "kawasaki" ends in an error before any sweep: it
\* goes through no temperature point and never completes normally.
C9_InvalidDynamicsRejected ==
    (params.dynamics \notin {"glauber", "kawasaki"} /\ Len(temp_range(params)) > 0)
        => (temp_i = 0 /\ pc # "done")

\* C10: no record the batch run writes holds a mean, a heat capacity or a
\* susceptibility computed from an empty sample list (a nan).
NoNaN(x) == x.kind # "nan"

C10_NoEmptySampleRecord ==
    /\ \A x \in 1..Len(glauber_output) :
          /\ NoNaN(glauber_output[x].energy)
          /\ NoNaN(glauber_output[x].magnetisation)
          /\ NoNaN(glauber_output[x].heat_capacity)
          /\ NoNaN(glauber_output[x].chi)
    /\ \A x \in 1..Len(kawasaki_output) :
          /\ NoNaN(kawasaki_output[x].energy)
          /\ NoNaN(kawasaki_output[x].heat_capacity)

\* C11: for every site (i,j) the four neighbours get_dE and unit_E read are
\* (i-1, j), (i+1, j), (i, j-1), (i, j+1) with row -1 wrapped to row rows-1,
\* row rows to row 0, column -1 to column cols-1 and column cols to column 0;
\* each is an index of the grid, and no other site (no diagonal one) is read.
Wrap(x, n) == IF x < 0 THEN n - 1 ELSE IF x >= n THEN 0 ELSE x

Neighbours(sz, s) ==
    << <<Wrap(s[1] - 1, sz[1]), s[2]>>, <<Wrap(s[1] + 1, sz[1]), s[2]>>,
       <<s[1], Wrap(s[2] - 1, sz[2])>>, <<s[1], Wrap(s[2] + 1, sz[2])>> >>

NeighbourSum(l, sz, s) ==
    LET nb == Neighbours(sz, s)
    IN  l[nb[1]] + l[nb[2]] + l[nb[3]] + l[nb[4]]

C11_PeriodicBoundary ==
    \A s \in Sites(size) :
        LET nb == Neighbours(size, s)
        IN  /\ pbc(size, <<s[1] - 1, s[2]>>) = nb[1]
            /\ pbc(size, <<s[1] + 1, s[2]>>) = nb[2]
            /\ pbc(size, <<s[1], s[2] - 1>>) = nb[3]
            /\ pbc(size, <<s[1], s[2] + 1>>) = nb[4]
            /\ \A x \in 1..4 : nb[x] \in Sites(size)
            /\ get_dE(lattice, size, s) = 2 * lattice[s] * NeighbourSum(lattice, size, s)
            /\ unit_E(lattice, size, s) = (0 - lattice[s]) * NeighbourSum(lattice, size, s)
            /\ \A d \in Sites(size) :
                  (d # s /\ \A x \in 1..4 : nb[x] # d)
                      => /\ get_dE(Flip(lattice, d), size, s) = get_dE(lattice, size, s)
                         /\ unit_E(Flip(lattice, d), size, s) = unit_E(lattice, size, s)

\* A glauber() step has read the neighbours of a site on a lattice with more
\* than one row and more than one column whose spins are not all equal.
C11_Witness ==
    /\ op = "glauber"
    /\ size[1] > 1
    /\ size[2] > 1
    /\ \E s \in Sites(size), t \in Sites(size) : lattice[s] # lattice[t]

\* C12: in a batch run with a valid dynamics name (and a stride n > 0) every
\* step leaves the records written so far as they are, or appends one record
\* whose temperature is the next point of the scan (higher than that of every
\* record before it); when the run ends there is one record per temperature
\* point.
OutputOf(g, k) == IF params.dynamics = "glauber" THEN g ELSE k

RunEnded(at) == at \in {"done", "ValueError", "ZeroDivisionError"}

C12_OutputStreamOrder ==
    [][(params.dynamics \in {"glauber", "kawasaki"} /\ params.n > 0) =>
          LET before == OutputOf(glauber_output, kawasaki_output)
              after == OutputOf(glauber_output', kawasaki_output')
          IN  /\ \/ after = before
                 \/ /\ Len(after) = Len(before) + 1
                    /\ SubSeq(after, 1, Len(before)) = before
                    /\ after[Len(after)].temp = temp_range(params)[Len(after)]
                    /\ \A x \in 1..Len(before) : before[x].temp < after[Len(after)].temp
              /\ RunEnded(pc') => Len(after) = Len(temp_range(params))]_vars

\* C13 as claimed: in the cold limit, under glauber dynamics with fair site
\* selection, every run reaches a fully aligned grid, get_abs_M() = rows * cols.
Aligned == get_abs_M(lattice, size) = NSites

C13_ZeroTempConvergence == <>Aligned

\* C13 as amended: the same on lattices with rows <= 3 and cols <= 3.
C13_ConvergenceSmall == (size[1] <= 3 /\ size[2] <= 3) => <>Aligned

\* An accepted flip has just aligned a lattice of that kind: the grid before
\* it was not aligned.
C13_Witness ==
    /\ size[1] <= 3
    /\ size[2] <= 3
    /\ size[1] * size[2] > 1
    /\ op = "glauber"
    /\ outcome = "True"
    /\ Aligned

C15_GlauberLockstep ==
    [][(dynamics = "glauber") =>
          /\ size' = size
          /\ temp' = temp
          /\ \/ /\ outcome' # "True"
                /\ lattice' = lattice
                /\ total_E' = total_E
             \/ /\ outcome' = "True"
                /\ \E s \in Sites(size) :
                      /\ lattice' = [lattice EXCEPT ![s] = 0 - lattice[s]]
                      /\ total_E' = total_E + get_dE(lattice, size, s)
          /\ (lattice' # lattice) <=> (outcome' = "True" /\ op' = "glauber")
          /\ (total_E' # total_E) => (lattice' # lattice)]_vars

\* A glauber() step on a 2 x 2 lattice accepted with no draw (dE < 0).
C15_Witness ==
    /\ dynamics = "glauber"
    /\ op = "glauber"
    /\ outcome = "True"
    /\ size = <<2, 2>>
    /\ ndraws = 0

\* C16: after any kawasaki() step, for every pair of sites holding different
\* spins the delta dE_1 + dE_2 that kawasaki() computes for the pair is
\* get_total_E of the grid with both spins negated minus get_total_E of the
\* grid.
C16_KawasakiJointDelta ==
    (op = "kawasaki") =>
        \A indices_1 \in Sites(size), indices_2 \in Sites(size) :
            (lattice[indices_1] # lattice[indices_2])
                => kawasaki_dE(lattice, size, indices_1, indices_2)
                       = get_total_E(Flip(Flip(lattice, indices_1), indices_2), size)
                         - get_total_E(lattice, size)

\* C17: the trial flip of site 1 is undone before the decision; a kawasaki()
\* step that is not accepted leaves every spin and total_E as they are, and
\* an accepted one negates exactly its two sites, which held different
\* spins, and adds dE_1 + dE_2 to total_E.
C17_KawasakiFrame ==
    [][(dynamics = "kawasaki") =>
          /\ \A indices_1 \in Sites(size) : kawasaki_restored(lattice, indices_1) = lattice
          /\ \/ /\ outcome' # "True"
                /\ lattice' = lattice
                /\ total_E' = total_E
             \/ /\ outcome' = "True"
                /\ \E indices_1 \in Sites(size), indices_2 \in Sites(size) :
                      /\ lattice[indices_1] # lattice[indices_2]
                      /\ lattice' = [lattice EXCEPT ![indices_1] = 0 - lattice[indices_1],
                                                    ![indices_2] = 0 - lattice[indices_2]]
                      /\ total_E' = total_E
                                    + get_dE(lattice, size, indices_1)
                                    + get_dE([lattice EXCEPT
                                                 ![indices_1] = 0 - lattice[indices_1]],
                                             size, indices_2)]_vars

\* A kawasaki() step on two different spins that metropolis() rejected.
C17_Witness ==
    /\ dynamics = "kawasaki"
    /\ op = "kawasaki"
    /\ called = TRUE
    /\ outcome = "False"

\* C18: in a batch run with a valid dynamics name (and a stride n > 0) every
\* temperature point that is over has made exactly sweeps * rows * cols
\* dynamics steps, sweep by sweep of rows * cols steps, and the run ends only
\* by returning from main() with every temperature point of the scan done.
StepsMade == sweep_j * size[1] * size[2] + step_k

C18_SweepUnitTermination ==
    (params.dynamics \in {"glauber", "kawasaki"} /\ params.n > 0) =>
        /\ step_k < size[1] * size[2]
        /\ StepsMade <= params.sweeps * size[1] * size[2]
        /\ (pc \in {"temp_loop", "done"} /\ temp_i > 0)
              => StepsMade = params.sweeps * size[1] * size[2]
        /\ (pc = "done") => (temp_i = Len(temp_range(params)))
        /\ pc \notin {"ValueError", "ZeroDivisionError"}

\* C19: every temperature point starts with a lattice that is all up, with
\* total_E = get_total_E() = -2 * rows * cols, at the temperature of the
\* point, and with empty sample lists; the lists never hold more samples than
\* the steps made in the point so far.
C19_PerTemperatureIsolation ==
    /\ (op = "build") =>
          /\ \A s \in Sites(size) : lattice[s] = 1
          /\ total_E = get_total_E(lattice, size)
          /\ total_E = (0 - 2) * size[1] * size[2]
          /\ energy_per_temp = <<>>
          /\ mag_per_temp = <<>>
          /\ \E x \in 1..Len(temp_range(params)) : temp = temp_range(params)[x]
    /\ (pc = "sweeps") =>
          /\ temp = temp_range(params)[temp_i + 1]
          /\ Len(energy_per_temp) <= StepsMade
          /\ Len(mag_per_temp) <= StepsMade

\* The second temperature point of a glauber run has just started, after a
\* first point that recorded samples and wrote its record.
C19_Witness ==
    /\ op = "build"
    /\ pc = "sweeps"
    /\ temp_i = 1
    /\ Len(glauber_output) = 1
    /\ NoNaN(glauber_output[1].energy)

\* C20: in a batch run with dynamics "kawasaki", once the lattice of a
\* temperature point is built the grid is all +1 and total_E is
\* -2 * rows * cols, and every recorded energy sample is that value.
C20_FrozenKawasakiBatch ==
    (params.dynamics = "kawasaki" /\ op # "unbound") =>
        /\ \A s \in Sites(size) : lattice[s] = 1
        /\ total_E = (0 - 2) * size[1] * size[2]
        /\ \A x \in 1..Len(energy_per_temp) :
              energy_per_temp[x] = (0 - 2) * size[1] * size[2]
        /\ mag_per_temp = <<>>

\* A kawasaki batch run on a 2 x 2 lattice that has recorded two samples.
C20_Witness ==
    /\ params.dynamics = "kawasaki"
    /\ op = "kawasaki"
    /\ size = <<2, 2>>
    /\ Len(energy_per_temp) >= 2

====
